---- MODULE Spec2Model ----
(***************************************************************************)
(* Model of snowflake_cli_package: PackageManager (manager.py), the        *)
(* version utilities (version_utils.py) and the push command (commands.py).*)
(*                                                                         *)
(* Strings are sequences of one-character strings, so that the string      *)
(* surgery of the code (substring tests, split, prefix stripping) is       *)
(* computed as the code computes it.  The local file system is a tree:     *)
(* a set of directories (each a sequence of names, <<>> the root) and a    *)
(* set of file paths.  The stage is a map from listing keys to the push    *)
(* that wrote the object.                                                  *)
(***************************************************************************)
EXTENDS Integers, Sequences, FiniteSets, TLC

\* ------------------------------------------------------------------ bounds
\* Local trees of the single-push specification SpecDrain.
MaxDirs == 2
MaxDepth == 2
MaxFiles == 2

\* Objects on the stage of the listing specification SpecList.
MaxKeys == 2

\* Length of the lists given to sorted_alphanumeric and max_alphanumeric.
MaxLen == 3

\* ------------------------------------------------------------ string helpers
Max(a, b) == IF a >= b THEN a ELSE b

\* s[a..b] as Python's s[a-1:b]
Slice(s, a, b) == IF a > b THEN <<>> ELSE SubSeq(s, a, b)

\* s.startswith(pre)
StartsWith(s, pre) == Len(pre) <= Len(s) /\ SubSeq(s, 1, Len(pre)) = pre

\* s.endswith(suf)
EndsWith(s, suf) ==
    Len(suf) <= Len(s) /\ SubSeq(s, Len(s) - Len(suf) + 1, Len(s)) = suf

\* s.find(sub) + 1: the first position at which sub occurs in s, 0 if none
Find(s, sub) ==
    LET hits == {i \in 1..(Len(s) - Len(sub) + 1) : SubSeq(s, i, i + Len(sub) - 1) = sub}
    IN IF hits = {} THEN 0 ELSE CHOOSE i \in hits : \A j \in hits : i <= j

\* sub in s
Contains(s, sub) == Find(s, sub) # 0

\* s.split(sep, 1)[-1]
SplitOnceLast(s, sep) ==
    LET i == Find(s, sep)
    IN IF i = 0 THEN s ELSE Slice(s, i + Len(sep), Len(s))

\* s.split(sep, 1)[0]
SplitOnceFirst(s, sep) ==
    LET i == Find(s, sep)
    IN IF i = 0 THEN s ELSE Slice(s, 1, i - 1)

\* s.split(sep): the list of pieces between the occurrences of the character sep
RECURSIVE SplitChar(_, _)
SplitChar(s, c) ==
    LET i == Find(s, <<c>>)
    IN IF i = 0 THEN <<s>>
       ELSE <<Slice(s, 1, i - 1)>> \o SplitChar(Slice(s, i + 1, Len(s)), c)

\* sep.join(parts)
RECURSIVE Join(_, _)
Join(parts, sep) ==
    IF parts = <<>> THEN <<>>
    ELSE IF Len(parts) = 1 THEN parts[1]
    ELSE parts[1] \o sep \o Join(Tail(parts), sep)

\* s.lstrip(c)
RECURSIVE LStrip(_, _)
LStrip(s, c) == IF s # <<>> /\ Head(s) = c THEN LStrip(Tail(s), c) ELSE s

\* s.rstrip(c)
RECURSIVE RStrip(_, _)
RStrip(s, c) ==
    IF s # <<>> /\ s[Len(s)] = c THEN RStrip(SubSeq(s, 1, Len(s) - 1), c) ELSE s

\* PurePosixPath(s).parts: the segments between slashes, empty and "."
\* segments dropped, a leading slash kept as the root part
PosixParts(s) ==
    LET segs == SelectSeq(SplitChar(s, "/"), LAMBDA x : x # <<>> /\ x # <<".">>)
    IN IF s # <<>> /\ Head(s) = "/" THEN <<<<"/">>>> \o segs ELSE segs

\* PurePosixPath(s).name
PosixName(s) ==
    LET parts == PosixParts(s)
    IN IF parts = <<>> \/ parts[Len(parts)] = <<"/">> THEN <<>> ELSE parts[Len(parts)]

\* str(PurePosixPath(s).parent)
PosixParent(s) ==
    LET parts == PosixParts(s)
    IN IF Len(parts) <= 1 THEN (IF parts = <<<<"/">>>> THEN <<"/">> ELSE <<".">>)
       ELSE IF parts[1] = <<"/">>
            THEN <<"/">> \o Join(SubSeq(parts, 2, Len(parts) - 1), <<"/">>)
            ELSE Join(SubSeq(parts, 1, Len(parts) - 1), <<"/">>)

\* ------------------------------------------------------------ version_utils
\* The characters of the model in code point order (str comparison and
\* str.lower work on code points).  The last one, SUPERSCRIPT TWO, is a
\* digit for str.isdigit() but not for [0-9], \d or int().
Alphabet == <<"-", ".", "/", "0", "1", "2", "3", "4", "5", "6", "7", "8", "9",
              "@", "A", "L", "V", "_", "a", "b", "c", "d", "e", "f", "g", "h",
              "k", "l", "p", "s", "t", "v", "x", "²">>

Code(c) == CHOOSE i \in 1..Len(Alphabet) : Alphabet[i] = c

DecimalDigits == <<"0", "1", "2", "3", "4", "5", "6", "7", "8", "9">>

IsDecimal(c) == \E i \in 1..Len(DecimalDigits) : DecimalDigits[i] = c

DigitValue(c) == (CHOOSE i \in 1..Len(DecimalDigits) : DecimalDigits[i] = c) - 1

\* c.lower() for one character
LowerChar(c) ==
    CASE c = "A" -> "a"
      [] c = "L" -> "l"
      [] c = "V" -> "v"
      [] OTHER -> c

\* text.lower()
Lower(text) == [i \in 1..Len(text) |-> LowerChar(text[i])]

\* c.isdigit() for one character
IsDigitChar(c) == IsDecimal(c) \/ c = "²"

\* text.isdigit() on the characters of the model
IsDigitStr(text) == text # <<>> /\ \A i \in 1..Len(text) : IsDigitChar(text[i])

\* int(text) raises ValueError
IntRaises(text) == text = <<>> \/ \E i \in 1..Len(text) : ~IsDecimal(text[i])

\* int(text) for a string of decimal digits
RECURSIVE ParseInt(_)
ParseInt(text) ==
    IF text = <<>> THEN 0
    ELSE ParseInt(SubSeq(text, 1, Len(text) - 1)) * 10 + DigitValue(text[Len(text)])

\* str(n) for n >= 0
RECURSIVE IntToStr(_)
IntToStr(n) ==
    IF n < 10 THEN <<DecimalDigits[n + 1]>>
    ELSE IntToStr(n \div 10) \o <<DecimalDigits[(n % 10) + 1]>>

\* the length of the longest prefix of s made of decimal digits (digits = TRUE)
\* or of other characters (digits = FALSE)
RECURSIVE RunLen(_, _)
RunLen(s, digits) ==
    IF s = <<>> \/ IsDecimal(Head(s)) # digits THEN 0
    ELSE 1 + RunLen(Tail(s), digits)

\* re.split("([0-9]+)", s): other, digits, other, ..., other
RECURSIVE ReSplitDigits(_)
ReSplitDigits(s) ==
    LET n == RunLen(s, FALSE)
        rest == Slice(s, n + 1, Len(s))
        m == RunLen(rest, TRUE)
    IN IF rest = <<>> THEN <<Slice(s, 1, n)>>
       ELSE <<Slice(s, 1, n), Slice(rest, 1, m)>>
            \o ReSplitDigits(Slice(rest, m + 1, Len(rest)))

\* alphanum_convert(text) raises ValueError: isdigit() holds and int() fails
ConvertRaises(text) == IsDigitStr(text) /\ IntRaises(text)

\* an element of a sort key: an integer or a string
alphanum_convert(text) ==
    IF IsDigitStr(text) THEN [int |-> TRUE, n |-> ParseInt(text), s |-> <<>>]
    ELSE [int |-> FALSE, n |-> 0, s |-> Lower(text)]

\* None is the value NoneValue
NoneValue == <<"N", "o", "n", "e", "!">>

get_alphanum_key(key) ==
    IF key = <<>> \/ key = NoneValue THEN <<>>
    ELSE LET parts == ReSplitDigits(key)
         IN [i \in 1..Len(parts) |-> alphanum_convert(parts[i])]

\* get_alphanum_key(key) raises ValueError
KeyRaises(key) ==
    /\ key # <<>>
    /\ key # NoneValue
    /\ \E i \in 1..Len(ReSplitDigits(key)) : ConvertRaises(ReSplitDigits(key)[i])

\* a < b for two strings (code point order, a proper prefix is less)
StrLess(a, b) ==
    \E i \in 1..(Len(b)) :
        /\ i <= Len(a) + 1
        /\ \A j \in 1..(i - 1) : a[j] = b[j]
        /\ (i = Len(a) + 1 \/ Code(a[i]) < Code(b[i]))

\* a < b for two key elements of the same kind
ElemLess(a, b) == IF a.int THEN a.n < b.n ELSE StrLess(a.s, b.s)

\* k1 < k2 for two keys (Python's list comparison)
KeyLess(k1, k2) ==
    \E i \in 1..(Len(k2)) :
        /\ i <= Len(k1) + 1
        /\ \A j \in 1..(i - 1) : k1[j] = k2[j]
        /\ (i = Len(k1) + 1 \/ ElemLess(k1[i], k2[i]))

\* sorted(data, key=get_alphanum_key) raises ValueError: the key of every
\* element is computed before the first comparison
SortRaises(data) == \E i \in 1..Len(data) : KeyRaises(data[i])

\* sorted(data, key=get_alphanum_key): a stable sort
RECURSIVE sorted_alphanumeric(_)
sorted_alphanumeric(data) ==
    IF data = <<>> THEN <<>>
    ELSE LET x == data[Len(data)]
             before == sorted_alphanumeric(SubSeq(data, 1, Len(data) - 1))
             \* x goes behind every element whose key is not greater
             pos == Cardinality({i \in 1..Len(before) :
                        \A j \in 1..i :
                            ~KeyLess(get_alphanum_key(x), get_alphanum_key(before[j]))})
         IN SubSeq(before, 1, pos) \o <<x>> \o SubSeq(before, pos + 1, Len(before))

\* a max that keeps the last of the greatest elements
max_alphanumeric_last(versions) ==
    LET valid == SelectSeq(versions, LAMBDA v : v # NoneValue /\ v # <<>>)
    IN IF valid = <<>> THEN NoneValue
       ELSE valid[CHOOSE i \in 1..Len(valid) :
                /\ \A j \in 1..Len(valid) :
                      ~KeyLess(get_alphanum_key(valid[i]), get_alphanum_key(valid[j]))
                /\ \A j \in (i + 1)..Len(valid) :
                      KeyLess(get_alphanum_key(valid[j]), get_alphanum_key(valid[i]))]

\* max_alphanumeric(versions) raises ValueError: the key of an element that
\* is neither None nor empty raises
MaxRaises(versions) == \E i \in 1..Len(versions) : KeyRaises(versions[i])

\* max(valid_versions, key=get_alphanum_key): the first of the greatest
max_alphanumeric(versions) ==
    LET valid == SelectSeq(versions, LAMBDA v : v # NoneValue /\ v # <<>>)
    IN IF valid = <<>> THEN NoneValue
       ELSE valid[CHOOSE i \in 1..Len(valid) :
                /\ \A j \in 1..Len(valid) :
                      ~KeyLess(get_alphanum_key(valid[i]), get_alphanum_key(valid[j]))
                /\ \A j \in 1..(i - 1) :
                      KeyLess(get_alphanum_key(valid[j]), get_alphanum_key(valid[i]))]

\* the index of the last part that is a digit run, 0 if none
LastDigitPart(parts) ==
    LET hits == {i \in 1..Len(parts) : IsDigitStr(parts[i])}
    IN IF hits = {} THEN 0 ELSE CHOOSE i \in hits : \A j \in hits : j <= i

\* increment_version(version) raises ValueError: the last part for which
\* str.isdigit() holds is not a literal int() accepts
IncrementRaises(version) ==
    LET parts == ReSplitDigits(version)
        i == LastDigitPart(parts)
    IN i # 0 /\ IntRaises(parts[i])

increment_version(version) ==
    LET parts == ReSplitDigits(version)
        i == LastDigitPart(parts)
        bumped == [j \in 1..Len(parts) |->
                      IF j = i THEN IntToStr(ParseInt(parts[j]) + 1) ELSE parts[j]]
    IN Join(bumped, <<>>)

\* ------------------------------------------------------------ local trees
\* A directory is the sequence of names from the tree root to it; a file
\* path is its directory followed by the file's name.
Root == <<>>

Front(path) == SubSeq(path, 1, Len(path) - 1)

\* path.is_relative_to(base)
is_relative_to(path, base) ==
    Len(base) <= Len(path) /\ SubSeq(path, 1, Len(base)) = base

\* no directory at all: the scratch directory does not exist
NoTree == [dirs |-> {}, files |-> {}]

\* [d for d in directory.iterdir() if d.is_dir()]
ChildDirs(tree, d) == {e \in tree.dirs : Len(e) = Len(d) + 1 /\ Front(e) = d}

\* the files directly in a directory
DirectFiles(tree, d) == {f \in tree.files : Front(f) = d}

\* a listing that is never empty: it holds the entry "."
iterdir_dot(tree, d) == ChildDirs(tree, d) \cup DirectFiles(tree, d) \cup {Append(d, ".")}

\* list(directory.iterdir())
iterdir(tree, d) == ChildDirs(tree, d) \cup DirectFiles(tree, d)

\* a removal that is left out
rmtree_noop(tree, d) == tree

\* shutil.rmtree(directory)
rmtree(tree, d) ==
    [dirs |-> {e \in tree.dirs : ~is_relative_to(e, d)},
     files |-> {f \in tree.files : ~is_relative_to(f, d)}]

\* directory names in sorted() order, and the file names a directory gets
DirNameSeq == <<"a", "b">>

FileNameSeq == <<"f", "g", "h">>

\* sorted([d for d in current_dir.iterdir() if d.is_dir()])
RECURSIVE SortedChildren(_, _, _)
SortedChildren(tree, d, i) ==
    IF i > Len(DirNameSeq) THEN <<>>
    ELSE (IF Append(d, DirNameSeq[i]) \in tree.dirs
          THEN <<Append(d, DirNameSeq[i])>> ELSE <<>>)
         \o SortedChildren(tree, d, i + 1)

InSeq(x, seq) == \E i \in 1..Len(seq) : seq[i] = x

\* the while loop of _find_deepest_directories
RECURSIVE FindLeaves(_, _, _)
FindLeaves(tree, queue, deepest_dirs) ==
    IF queue = <<>> THEN deepest_dirs
    ELSE LET current_dir == Head(queue)
             children_directories == SortedChildren(tree, current_dir, 1)
         IN IF children_directories = <<>> /\ ~InSeq(current_dir, deepest_dirs)
            THEN FindLeaves(tree, Tail(queue), Append(deepest_dirs, current_dir))
            ELSE FindLeaves(tree,
                            Tail(queue) \o SelectSeq(children_directories,
                                                     LAMBDA c : ~InSeq(c, deepest_dirs)),
                            deepest_dirs)

\* sorted(dirs, key=lambda d: len(d.parts), reverse=True): stable, deepest first
RECURSIVE SortByDepthDesc(_, _)
SortByDepthDesc(dirs, depth) ==
    IF depth < 0 THEN <<>>
    ELSE SelectSeq(dirs, LAMBDA d : Len(d) = depth) \o SortByDepthDesc(dirs, depth - 1)

RECURSIVE MaxLenOf(_)
MaxLenOf(dirs) == IF dirs = <<>> THEN 0 ELSE Max(Len(Head(dirs)), MaxLenOf(Tail(dirs)))

_find_deepest_directories(tree) ==
    LET deepest_dirs == FindLeaves(tree, <<Root>>, <<>>)
    IN SortByDepthDesc(deepest_dirs, MaxLenOf(deepest_dirs))

\* the scratch tree after _copy_to_tmp_dir(source, the new temporary directory)
_copy_to_tmp_dir(source) ==
    [dirs |-> {Root} \cup source.dirs \cup {Front(f) : f \in source.files},
     files |-> source.files]

\* the directory shapes with at most n directories besides the root, none
\* deeper than depth
RECURSIVE Shapes(_, _)
Shapes(n, depth) ==
    IF n = 0 THEN {{Root}}
    ELSE LET S == Shapes(n - 1, depth)
         IN S \cup UNION {{t \cup {Append(d, nm)} :
                              d \in {e \in t : Len(e) < depth}, nm \in {"a", "b"}} : t \in S}

\* the trees of these shapes in which a directory holds the first 0..mf file names
Trees(n, depth, mf) ==
    UNION {{[dirs |-> sh,
             files |-> UNION {{Append(d, FileNameSeq[i]) : i \in 1..cnt[d]} : d \in sh}] :
               cnt \in [sh -> 0..mf]} : sh \in Shapes(n, depth)}

\* ------------------------------------------------------------ stage paths
\* manager.py: PACKAGES_BASE_PATH = "packages"
PACKAGES_BASE_PATH == <<"p", "a", "c", "k", "a", "g", "e", "s">>

\* the stage "@d.s" (database d, stage s), the package "k", the versions
STAGE == <<"@", "d", ".", "s">>

PACKAGE == <<"k">>

V1 == <<"1", ".", "0">>

V2 == <<"2", ".", "0">>

Versions == {V1, V2}

LATEST == <<"L", "a", "t", "e", "s", "t">>

\* a directory or file path of a tree as a string: str(PurePosixPath(rel))
PathStr(path) == Join([i \in 1..Len(path) |-> <<path[i]>>], <<"/">>)

\* StagePath.from_stage_str(stage) / PACKAGES_BASE_PATH / package_name,
\* as its absolute_path() string
_get_package_base_path(stage, package_name) ==
    (IF StartsWith(stage, <<"@">>) THEN stage ELSE <<"@">> \o stage)
    \o <<"/">> \o PACKAGES_BASE_PATH \o <<"/">> \o package_name

_get_version_path_str(stage, package_name, version) ==
    _get_package_base_path(stage, package_name) \o <<"/">> \o version

\* ------------------------------------------------------------ the collaborator
\* The stage maps the name LIST shows for an object to the push that wrote
\* it.  LIST names start with the simple stage name, not the qualified one.
\* (clean, fqn and dots are bound as values, each computed once)
ListName(stage_path) ==
    CHOOSE name \in
        UNION {UNION {{dots[Len(dots)] \o Slice(clean, Len(fqn) + 1, Len(clean)) :
                          dots \in {SplitChar(fqn, ".")}} :
                      fqn \in {SplitOnceFirst(clean, <<"/">>)}} :
               clean \in {LStrip(stage_path, "@")}} : TRUE

\* StageManager.list_files(path).fetchall(): the names under the path
list_files(objects, stage_path) ==
    {name \in DOMAIN objects : StartsWith(name, ListName(stage_path))}

\* the names a PUT of the files of a directory writes under target_path
PutNames(target_path, file_names) ==
    UNION {{ListName(prefix \o n) : n \in file_names} : prefix \in {target_path}}

\* StageManager.put(..., overwrite=False): the objects after writing the
\* batch `names`; an object that is already there is skipped, not replaced
put(objects, names, overwrite, writer) ==
    [k \in DOMAIN objects \cup names |->
        IF k \in DOMAIN objects /\ ~(overwrite /\ k \in names) THEN objects[k] ELSE writer]

\* ------------------------------------------------------------ listings
\* lines 75-87 of list_versions: the set of versions in the listed names
ListedVersions(files, package_name) ==
    LET package_prefix == PACKAGES_BASE_PATH \o <<"/">> \o package_name \o <<"/">>
    IN {PosixParts(SplitOnceLast(file_name, package_prefix))[1] :
          file_name \in {n \in files :
              /\ Contains(n, package_prefix)
              /\ PosixParts(SplitOnceLast(n, package_prefix)) # <<>>}}

\* list(versions): a set in some order
RECURSIVE SeqsOf(_)
SeqsOf(S) ==
    IF S = {} THEN {<<>>}
    ELSE UNION {{<<x>> \o rest : rest \in SeqsOf(S \ {x})} : x \in S}

\* a list_versions without the try block around the listing: the listing
\* is read although the call raised
list_versions_unguarded(objects, stage, package_name, ok) ==
    {sorted_alphanumeric(l) :
        l \in SeqsOf(ListedVersions(
                list_files(objects, _get_package_base_path(stage, package_name)),
                package_name))}

\* list_versions: every list it can return for a listing; ok = FALSE when
\* the listing call raises
list_versions(objects, stage, package_name, ok) ==
    IF ~ok THEN {<<>>}
    ELSE {sorted_alphanumeric(l) :
            l \in SeqsOf(ListedVersions(
                    list_files(objects, _get_package_base_path(stage, package_name)),
                    package_name))}

\* a membership test on the package name instead of the version
version_exists_package(versions, version) == InSeq(PACKAGE, versions)

\* version in versions
version_exists(versions, version) == InSeq(version, versions)

\* the first version of the sorted list instead of the greatest
get_max_version_first(versions) == IF versions = <<>> THEN NoneValue ELSE versions[1]

\* max_alphanumeric(versions)
get_max_version(versions) == max_alphanumeric(versions)

\* lines 141-155 of list_packages: sorted(packages) is the set here
ListedPackages(files) ==
    LET packages_prefix == PACKAGES_BASE_PATH \o <<"/">>
    IN {PosixParts(SplitOnceLast(file_name, packages_prefix))[1] :
          file_name \in {n \in files :
              /\ Contains(n, packages_prefix)
              /\ PosixParts(SplitOnceLast(n, packages_prefix)) # <<>>}}

list_packages(objects, stage, ok) ==
    IF ~ok THEN {}
    ELSE ListedPackages(list_files(objects,
            (IF StartsWith(stage, <<"@">>) THEN stage ELSE <<"@">> \o stage)
            \o <<"/">> \o PACKAGES_BASE_PATH))

\* ------------------------------------------------------------ processes
\* Two consumers of push generators and one caller of the eager operations.
Pushers == {"p1", "p2"}

Readers == {"q1"}

VARIABLES
    objects,   \* the stage: LIST name -> the push that wrote the object
    push,      \* per pusher: the arguments, the generator and its consumer
    reader     \* per reader: the operation it calls and its progress

vars == <<objects, push, reader>>

\* the CliError texts of push and pull, by the name the taxonomy gives them
Message(err) ==
    CASE err = "PathNotFound" -> {"Local path does not exist"}
      [] err = "NotADirectory" -> {"Local path must be a directory"}
      [] err = "VersionImmutable" -> {"already exists", "immutable"}
      [] err = "NoVersionsFound" -> {"No versions found", "Cannot resolve 'latest'"}
      [] err = "VersionNotFound" -> {"does not exist"}
      [] OTHER -> {}

\* a generator object that was created by push(...) and not started
NewPush(version, local, parallel) ==
    [version |-> version,     \* the version argument
     local |-> local,         \* local_path: [kind, tree]
     parallel |-> parallel,
     pc |-> "new",            \* new, loop, yield, done, failed, closed
     demand |-> FALSE,        \* the consumer is inside next()
     asked |-> 0,             \* the next() calls of the consumer so far
     scratch |-> NoTree,      \* the TemporaryDirectory
     queue |-> <<>>,          \* deepest_dirs_list
     cur |-> Root,            \* directory, while its records are yielded
     pending |-> <<>>,        \* the rows of cursor.fetchall() not yet yielded
     taken |-> <<>>,          \* the directories popped so far
     calls |-> <<>>,          \* the put calls issued so far
     lists |-> 0,             \* the listing calls issued so far
     listok |-> FALSE,        \* the listing call of the check returned
     seen |-> <<>>,           \* what list_versions returned to the check
     err |-> "none",          \* the error raised to the consumer
     out |-> <<>>]            \* the records the consumer received

\* the directory test made first: a missing path is reported as no directory
PathError_dirfirst(local) ==
    IF local.kind # "dir" THEN "NotADirectory"
    ELSE IF local.kind = "missing" THEN "PathNotFound"
    ELSE "none"

\* lines 304-307 of push
PathError(local) ==
    IF local.kind = "missing" THEN "PathNotFound"
    ELSE IF local.kind # "dir" THEN "NotADirectory"
    ELSE "none"

\* a scratch directory made without the with block: an exception leaves it
Raise_leak(me, err) == [me EXCEPT !.pc = "failed", !.err = err, !.demand = FALSE]

\* an exception leaves the generator: the with block removes the scratch
\* directory and the consumer's next() raises
Raise(me, err) ==
    [me EXCEPT !.pc = "failed", !.err = err, !.scratch = NoTree, !.demand = FALSE]

\* the generator returns: the consumer's next() raises StopIteration
Return(me) == [me EXCEPT !.pc = "done", !.scratch = NoTree, !.demand = FALSE]

\* lines 309-314 and 316-331, 218-229: the check on the listed versions,
\* then the scratch copy and the leaves
CheckAndCopy(me, versions) ==
    IF version_exists(versions, me.version)
    THEN Raise([me EXCEPT !.lists = @ + 1, !.seen = versions], "VersionImmutable")
    ELSE LET temp_dir == _copy_to_tmp_dir(me.local.tree)
         IN [me EXCEPT !.lists = @ + 1, !.seen = versions, !.pc = "loop",
                       !.scratch = temp_dir,
                       !.queue = _find_deepest_directories(temp_dir)]

\* lines 218-220
WithSlash(stage_path) ==
    IF EndsWith(stage_path, <<"/">>) THEN stage_path ELSE stage_path \o <<"/">>

\* every directory put at the version root
TargetPath_flat(stage_path, directory) == stage_path

\* lines 241-245
TargetPath(stage_path, directory) ==
    IF directory = Root THEN stage_path ELSE stage_path \o PathStr(directory) \o <<"/">>

\* the target prefix of a directory of this push
TargetOf(me, directory) ==
    TargetPath(WithSlash(_get_version_path_str(STAGE, PACKAGE, me.version)), directory)

\* the names of the files directly in a directory
FileNames(tree, directory) == {<<f[Len(f)]>> : f \in DirectFiles(tree, directory)}

\* lines 260-262: the rows of the cursor, source and target rewritten
RECURSIVE Rows(_, _, _, _)
Rows(names, directory, target, i) ==
    IF i > Len(FileNameSeq) THEN <<>>
    ELSE (IF <<FileNameSeq[i]>> \in names
          THEN <<[source |-> PathStr(Append(directory, FileNameSeq[i])),
                  target |-> target \o <<FileNameSeq[i]>>]>>
          ELSE <<>>)
         \o Rows(names, directory, target, i + 1)

\* lines 250-257: the put call on a directory, as the collaborator saw it
PutCall(me, directory, ok) ==
    [directory |-> directory,
     target |-> TargetOf(me, directory),
     names |-> FileNames(me.scratch, directory),
     subdirs |-> ChildDirs(me.scratch, directory),
     parallel |-> me.parallel,
     overwrite |-> FALSE,
     auto_compress |-> FALSE,
     ok |-> ok]

\* the parent added without looking for queued entries inside it
EnqueueParent_unchecked(deepest_dirs_list, directory) ==
    IF ~InSeq(Front(directory), deepest_dirs_list)
    THEN Append(deepest_dirs_list, Front(directory))
    ELSE deepest_dirs_list

\* lines 269-274: the list after the parent was added, or not
EnqueueParent(deepest_dirs_list, directory) ==
    IF /\ ~InSeq(Front(directory), deepest_dirs_list)
       /\ ~\E i \in 1..Len(deepest_dirs_list) :
              is_relative_to(deepest_dirs_list[i], Front(directory))
    THEN Append(deepest_dirs_list, Front(directory))
    ELSE deepest_dirs_list

\* the drain loop run on local_path itself instead of a copy
AfterDirectory_inplace(me, directory) ==
    IF directory = Root THEN [me EXCEPT !.pc = "done", !.scratch = NoTree, !.demand = FALSE]
    ELSE [me EXCEPT !.pc = "loop",
                    !.queue = EnqueueParent(me.queue, directory),
                    !.scratch = rmtree(me.scratch, directory),
                    !.local = [@ EXCEPT !.tree = rmtree(@, directory)]]

\* a loop without the break on the root: the root is queued again
AfterDirectory_nobreak(me, directory) ==
    IF directory = Root THEN [me EXCEPT !.pc = "loop", !.queue = Append(@, Root)]
    ELSE [me EXCEPT !.pc = "loop",
                    !.queue = EnqueueParent(me.queue, directory),
                    !.scratch = rmtree(me.scratch, directory)]

\* lines 265-277: the end of the iteration on a directory
AfterDirectory(me, directory) ==
    IF directory = Root THEN Return(me)
    ELSE [me EXCEPT !.pc = "loop",
                    !.queue = EnqueueParent(me.queue, directory),
                    !.scratch = rmtree(me.scratch, directory)]

\* a put error that is caught and logged: the loop goes on
OnPutError_swallow(me) == AfterDirectory(me, me.taken[Len(me.taken)])

\* put raised: nothing catches it in _put_directory_recursive or push
OnPutError(me) == Raise(me, "UploadError")

\* the rows collected into a list instead of yielded: no suspension
Yield_eager(me) == [me EXCEPT !.out = Append(@, Head(me.pending)), !.pending = Tail(@)]

\* line 263: yield result
Yield(me) ==
    [me EXCEPT !.out = Append(@, Head(me.pending)), !.pending = Tail(@), !.demand = FALSE]

\* ------------------------------------------------------------ push actions
\* the consumer calls next() on the generator
Request(p) ==
    /\ push[p].pc \in {"new", "loop", "yield"}
    /\ ~push[p].demand
    /\ push' = [push EXCEPT ![p].demand = TRUE, ![p].asked = @ + 1]
    /\ UNCHANGED <<objects, reader>>

\* the consumer stops: the suspended generator is closed (GeneratorExit
\* leaves the with block)
Close(p) ==
    /\ push[p].pc \in {"new", "loop", "yield"}
    /\ ~push[p].demand
    /\ push' = [push EXCEPT ![p].pc = "closed", ![p].scratch = NoTree]
    /\ UNCHANGED <<objects, reader>>

\* lines 303-331 and 218-229: the body of push up to the drain loop
PushBegin(p) ==
    LET me == push[p]
    IN /\ me.pc = "new"
       /\ me.demand
       /\ IF PathError(me.local) # "none"
          THEN push' = [push EXCEPT ![p] = Raise(me, PathError(me.local))]
          ELSE \E ok \in BOOLEAN :
                 \E versions \in list_versions(objects, STAGE, PACKAGE, ok) :
                    push' = [push EXCEPT ![p] =
                                CheckAndCopy([me EXCEPT !.listok = ok], versions)]
       /\ UNCHANGED <<objects, reader>>

\* lines 231-257: one iteration of the drain loop up to the put call
DrainStep(p) ==
    LET me == push[p]
    IN /\ me.pc = "loop"
       /\ me.demand
       /\ IF me.queue = <<>>
          THEN push' = [push EXCEPT ![p] = Return(me)] /\ UNCHANGED objects
          ELSE LET directory == Head(me.queue)
                   popped == [me EXCEPT !.queue = Tail(@), !.taken = Append(@, directory)]
                   names == PutNames(TargetOf(me, directory), FileNames(me.scratch, directory))
               IN IF directory = Root /\ popped.queue # <<>>
                  THEN push' = [push EXCEPT ![p] = popped] /\ UNCHANGED objects
                  ELSE IF iterdir(me.scratch, directory) = {}
                  THEN push' = [push EXCEPT ![p] = AfterDirectory(popped, directory)]
                       /\ UNCHANGED objects
                  ELSE \/ /\ objects' = put(objects, names, FALSE, p)
                          /\ push' = [push EXCEPT ![p] =
                                [popped EXCEPT
                                    !.calls = Append(@, PutCall(me, directory, TRUE)),
                                    !.cur = directory,
                                    !.pending = Rows(FileNames(me.scratch, directory),
                                                     directory, TargetOf(me, directory), 1),
                                    !.pc = "yield"]]
                       \/ \E written \in SUBSET names :
                          /\ objects' = put(objects, written, FALSE, p)
                          /\ push' = [push EXCEPT ![p] =
                                OnPutError([popped EXCEPT
                                    !.calls = Append(@, PutCall(me, directory, FALSE))])]
       /\ UNCHANGED reader

\* the version path as LIST shows it, and the objects under it
VersionPrefix(version) == ListName(WithSlash(_get_version_path_str(STAGE, PACKAGE, version)))

VersionObjects(objs, version) ==
    {n \in DOMAIN objs : StartsWith(n, VersionPrefix(version))}

\* a push that looks at the stage again before every put, and gives up when
\* another push has written into its version since its check
PushIterate_recheck(p) ==
    IF \E n \in VersionObjects(objects, push[p].version) : objects[n] # p
    THEN /\ push[p].pc = "loop"
         /\ push[p].demand
         /\ push' = [push EXCEPT ![p] = Raise(push[p], "VersionImmutable")]
         /\ UNCHANGED <<objects, reader>>
    ELSE DrainStep(p)

\* the while loop of _put_directory_recursive, one iteration at a time
PushIterate(p) == DrainStep(p)

\* line 263: the next row goes to the consumer and the generator suspends
PushYield(p) ==
    /\ push[p].pc = "yield"
    /\ push[p].demand
    /\ push[p].pending # <<>>
    /\ push' = [push EXCEPT ![p] = Yield(push[p])]
    /\ UNCHANGED <<objects, reader>>

\* lines 265-277: after the last row, the iteration ends
PushResume(p) ==
    /\ push[p].pc = "yield"
    /\ push[p].demand
    /\ push[p].pending = <<>>
    /\ push' = [push EXCEPT ![p] = AfterDirectory(push[p], push[p].cur)]
    /\ UNCHANGED <<objects, reader>>

\* ------------------------------------------------------------ pull
\* a caller of pull, list_versions, list_packages or get_max_version
NewReader(op, version, kind, convention) ==
    [op |-> op,
     version |-> version,     \* the version argument of pull
     kind |-> kind,           \* local_path: missing, file or dir
     was |-> kind,            \* local_path at the time of the call
     files |-> <<>>,          \* local_path's files: relative path -> object
     convention |-> convention, \* where the collaborator's GET puts a file
     pc |-> "new",            \* new, files, done, failed
     resolved |-> <<>>,       \* the version after 'latest' was resolved
     scratch |-> FALSE,       \* the TemporaryDirectory exists
     temp |-> <<>>,           \* its files: relative path -> object
     todo |-> <<>>,           \* the listed names not yet handled
     listed |-> {},           \* the names the listing returned
     gets |-> <<>>,           \* the stage paths passed to get
     lists |-> 0,             \* the listing calls issued so far
     results |-> <<>>,        \* the result records so far
     err |-> "none",
     result |-> <<>>]         \* the value a listing operation returned

\* the names of a set in LIST order
RECURSIVE SortedNames(_)
SortedNames(S) ==
    IF S = {} THEN <<>>
    ELSE LET least == CHOOSE x \in S : \A y \in S \ {x} : StrLess(x, y)
         IN <<least>> \o SortedNames(S \ {least})

\* lines 376-391: the qualified stage name, the simple one and base_prefix
StageFqn(stage_path) == SplitOnceFirst(RStrip(LStrip(stage_path, "@"), "/"), <<"/">>)

StageSimpleName(stage_path) ==
    LET dots == SplitChar(StageFqn(stage_path), ".") IN dots[Len(dots)]

BasePrefix(stage_path) ==
    LET clean == RStrip(LStrip(stage_path, "@"), "/")
        path_in_stage == IF Contains(clean, <<"/">>) THEN SplitOnceLast(clean, <<"/">>) ELSE <<>>
    IN IF path_in_stage # <<>> THEN StageSimpleName(stage_path) \o <<"/">> \o path_in_stage
       ELSE StageSimpleName(stage_path)

\* lines 404-411
RelativePath(stage_path, file_name) ==
    LET base_prefix == BasePrefix(stage_path)
    IN IF base_prefix # <<>> /\ StartsWith(file_name, base_prefix \o <<"/">>)
       THEN Slice(file_name, Len(base_prefix) + 2, Len(file_name))
       ELSE IF base_prefix # <<>> /\ StartsWith(file_name, base_prefix)
       THEN LET rest == Slice(file_name, Len(base_prefix) + 1, Len(file_name))
            IN IF StartsWith(rest, <<"/">>) THEN Tail(rest) ELSE rest
       ELSE file_name

\* the listed name passed to get as it is, behind an @
StageFilePath_listed(stage_path, file_name) == <<"@">> \o file_name

\* lines 419-423
StageFilePath(stage_path, file_name) ==
    LET simple == StageSimpleName(stage_path)
        path_after_stage == IF StartsWith(file_name, simple \o <<"/">>)
                            THEN Slice(file_name, Len(simple) + 2, Len(file_name))
                            ELSE file_name
    IN <<"@">> \o StageFqn(stage_path) \o <<"/">> \o path_after_stage

\* where the collaborator's GET writes the file of a name, by its convention
GetLocation(convention, stage_path, file_name) ==
    CASE convention = "full" -> file_name
      [] convention = "name" -> PosixName(file_name)
      [] convention = "relative" -> RelativePath(stage_path, file_name)
      [] OTHER -> <<"x", "/">> \o PosixName(file_name)

\* a map with one more entry
MapPut(map, k, v) == [x \in DOMAIN map \cup {k} |-> IF x = k THEN v ELSE map[x]]

\* a map without one entry
MapDrop(map, k) == [x \in DOMAIN map \ {k} |-> map[x]]

\* lines 456-474: the files of the scratch area that pass for the download
FoundFiles(temp, stage_path, file_name) ==
    LET just_filename == PosixName(file_name)
        relative_path == RelativePath(stage_path, file_name)
    IN IF file_name \in DOMAIN temp THEN {file_name}
       ELSE IF just_filename \in DOMAIN temp THEN {just_filename}
       ELSE IF relative_path \in DOMAIN temp THEN {relative_path}
       ELSE {f \in DOMAIN temp : PosixName(f) = just_filename}

\* lines 444-451: final_path, relative to local_path
FinalPath(relative_path) ==
    IF PosixParent(relative_path) = <<".">> THEN PosixName(relative_path)
    ELSE PosixParent(relative_path) \o <<"/">> \o PosixName(relative_path)

\* a pull that does not check that the version exists
PullVersion_nocheck(version, versions1, versions2) ==
    LET latest == Lower(version) = Lower(LATEST)
        max_ver == get_max_version(versions1)
    IN IF latest /\ max_ver = NoneValue THEN [err |-> "NoVersionsFound", version |-> version]
       ELSE [err |-> "none", version |-> IF latest THEN max_ver ELSE version]

\* lines 529-544: the version pull works on, or the error it raises;
\* versions1 and versions2 are what the two list_versions calls returned
PullVersion(version, versions1, versions2) ==
    LET latest == Lower(version) = Lower(LATEST)
        max_ver == get_max_version(versions1)
        v == IF latest THEN max_ver ELSE version
    IN IF latest /\ max_ver = NoneValue THEN [err |-> "NoVersionsFound", version |-> version]
       ELSE IF ~version_exists(versions2, v) THEN [err |-> "VersionNotFound", version |-> v]
       ELSE [err |-> "none", version |-> v]

\* a pull that does not create local_path
mkdir_absent(kind) == kind

\* lines 354-355: if not local_path.exists(): local_path.mkdir(parents=True,
\* exist_ok=True)
mkdir(kind) == IF kind = "missing" THEN "dir" ELSE kind

\* lines 529-562 and 353-393: pull up to the download loop
PullBegin(q) ==
    LET me == reader[q]
    IN /\ me.op = "pull"
       /\ me.pc = "new"
       /\ \E ok1, ok2, ok3 \in BOOLEAN :
          \E versions1 \in list_versions(objects, STAGE, PACKAGE, ok1),
             versions2 \in list_versions(objects, STAGE, PACKAGE, ok2) :
            LET latest == Lower(me.version) = Lower(LATEST)
                pv == PullVersion(me.version, versions1, versions2)
                done == (IF latest THEN 1 ELSE 0) +
                        (IF pv.err = "NoVersionsFound" THEN 0 ELSE 1)
                stage_path == _get_version_path_str(STAGE, PACKAGE, pv.version)
                files == IF ok3
                         THEN list_files(objects, RStrip(stage_path, "/") \o <<"/">>)
                         ELSE {}
            IN /\ (~latest => ok1)
               /\ (pv.err = "NoVersionsFound" => ok2)
               /\ (pv.err # "none" => ok3)
               /\ reader' = [reader EXCEPT ![q] =
                    IF pv.err # "none"
                    THEN [me EXCEPT !.pc = "failed", !.err = pv.err, !.lists = done,
                                    !.resolved = pv.version]
                    ELSE [me EXCEPT !.lists = done + 1,
                                    !.resolved = pv.version,
                                    !.kind = mkdir(@),
                                    !.listed = files,
                                    !.todo = SortedNames(files),
                                    !.scratch = files # {},
                                    !.pc = IF files = {} THEN "done" ELSE "files"]]
       /\ UNCHANGED <<objects, push>>

\* a download loop without the try block: the first error ends the pull
PullFile_abort(q) ==
    LET me == reader[q]
        stage_path == _get_version_path_str(STAGE, PACKAGE, me.resolved)
    IN /\ me.op = "pull"
       /\ me.pc = "files"
       /\ me.todo # <<>>
       /\ reader' = [reader EXCEPT ![q] =
             [me EXCEPT !.todo = Tail(@),
                        !.gets = Append(@, StageFilePath(stage_path, Head(me.todo))),
                        !.pc = "failed", !.err = "DownloadError",
                        !.scratch = FALSE, !.temp = <<>>]]
       /\ UNCHANGED <<objects, push>>

\* lines 396-501: one listed file
PullFile(q) ==
    LET me == reader[q]
        stage_path == _get_version_path_str(STAGE, PACKAGE, me.resolved)
        file_name == Head(me.todo)
        relative_path == RelativePath(stage_path, file_name)
        rest == [me EXCEPT !.todo = Tail(@)]
        asked == [rest EXCEPT !.gets = Append(@, StageFilePath(stage_path, file_name))]
        failed == [file |-> relative_path, status |-> "failed"]
    IN /\ me.op = "pull"
       /\ me.pc = "files"
       /\ me.todo # <<>>
       /\ IF relative_path = <<>>
          THEN reader' = [reader EXCEPT ![q] = rest]
          ELSE \/ \* get raises
                  reader' = [reader EXCEPT ![q] =
                                [asked EXCEPT !.results = Append(@, failed)]]
               \/ \* get returns
                  LET temp == IF me.convention = "nowhere" THEN me.temp
                              ELSE MapPut(me.temp,
                                          GetLocation(me.convention, stage_path, file_name),
                                          file_name)
                      found == FoundFiles(temp, stage_path, file_name)
                  IN IF found = {}
                     THEN reader' = [reader EXCEPT ![q] =
                             [asked EXCEPT !.temp = temp, !.results = Append(@, failed)]]
                     ELSE \E downloaded_file \in found :
                        IF me.kind # "dir"
                        THEN \* mkdir or shutil.move raises: local_path is a file
                             reader' = [reader EXCEPT ![q] =
                                [asked EXCEPT !.temp = temp, !.results = Append(@, failed)]]
                        ELSE reader' = [reader EXCEPT ![q] =
                                [asked EXCEPT
                                    !.temp = MapDrop(temp, downloaded_file),
                                    !.files = MapPut(@, FinalPath(relative_path),
                                                     temp[downloaded_file]),
                                    !.results = Append(@, [file |-> relative_path,
                                                           status |-> "downloaded"])]]
       /\ UNCHANGED <<objects, push>>

\* line 503: the with block ends and the results are returned
PullEnd(q) ==
    /\ reader[q].op = "pull"
    /\ reader[q].pc = "files"
    /\ reader[q].todo = <<>>
    /\ reader' = [reader EXCEPT ![q].pc = "done", ![q].scratch = FALSE, ![q].temp = <<>>]
    /\ UNCHANGED <<objects, push>>

\* list_versions, list_packages or get_max_version, called on its own
Query(q) ==
    LET me == reader[q]
    IN /\ me.op # "pull"
       /\ me.pc = "new"
       /\ \E ok \in BOOLEAN :
            \E versions \in list_versions(objects, STAGE, PACKAGE, ok) :
              reader' = [reader EXCEPT ![q] =
                 [me EXCEPT !.pc = "done", !.lists = 1,
                            !.result =
                               IF me.op = "list_versions" THEN versions
                               ELSE IF me.op = "get_max_version"
                                    THEN get_max_version(versions)
                               ELSE SortedNames(list_packages(objects, STAGE, ok))]]
       /\ UNCHANGED <<objects, push>>

\* ------------------------------------------------------------ specifications
LocalDirs(trees) == {[kind |-> "dir", tree |-> t] : t \in trees}

\* a local_path that is missing, or a regular file
NoDir == {[kind |-> k, tree |-> NoTree] : k \in {"missing", "file"}}

\* the local trees of the concurrent pushes: the root, with or without the
\* directory a, with or without a file f in each
RaceTrees ==
    {t \in [dirs : {{Root}, {Root, <<"a">>}}, files : SUBSET {<<"f">>, <<"a", "f">>}] :
        \A f \in t.files : Front(f) \in t.dirs}

\* the local trees of the single push
DrainTrees == Trees(MaxDirs, MaxDepth, MaxFiles)

PullVersions == Versions \cup {LATEST}

Conventions == {"full", "name", "relative", "elsewhere", "nowhere"}

Pulls ==
    {NewReader("pull", v, k, c) :
        v \in PullVersions, k \in {"missing", "file", "dir"}, c \in Conventions}

Queries ==
    {NewReader(op, <<>>, "dir", "full") :
        op \in {"list_versions", "list_packages", "get_max_version"}}

\* a pusher or a reader that takes no part in a specification
IdlePush == [NewPush(V1, [kind |-> "dir", tree |-> [dirs |-> {Root}, files |-> {}]], 4)
                EXCEPT !.pc = "closed"]

IdleReader == [NewReader("list_versions", <<>>, "dir", "full") EXCEPT !.pc = "done"]

PushActions(p) ==
    \/ Request(p)
    \/ Close(p)
    \/ PushBegin(p)
    \/ PushIterate(p)
    \/ PushYield(p)
    \/ PushResume(p)

\* Spec: two pushes and a listing operation, in any interleaving
Init ==
    /\ objects = <<>>
    /\ push \in [Pushers -> {NewPush(v, l, 4) : v \in Versions, l \in LocalDirs(RaceTrees)}]
    /\ reader \in [Readers -> Queries]

Next ==
    \/ \E p \in Pushers : PushActions(p)
    \/ \E q \in Readers : Query(q)

Spec == Init /\ [][Next]_vars

\* the stage after an earlier push p0 of version 1.0 with the one file f
SeededObjects ==
    put(<<>>, PutNames(WithSlash(_get_version_path_str(STAGE, PACKAGE, V1)), {<<"f">>}),
        FALSE, "p0")

\* SpecDrain: one push of any local path to version 1.0, and its consumer,
\* on an empty stage or on one that holds version 1.0
InitDrain ==
    /\ objects \in {<<>>, SeededObjects}
    /\ push \in {[p \in Pushers |-> IF p = "p1" THEN one ELSE IdlePush] :
                    one \in {NewPush(V1, l, par) :
                                l \in LocalDirs(DrainTrees) \cup NoDir, par \in {2, 4}}}
    /\ reader = [q \in Readers |-> IdleReader]

NextDrain == PushActions("p1")

SpecDrain == InitDrain /\ [][NextDrain]_vars

\* the generator moves on: the consumer asks for the next record, or the
\* body runs up to its next yield, its return or its exception
Advance(p) ==
    \/ Request(p)
    \/ PushBegin(p)
    \/ PushIterate(p)
    \/ PushYield(p)
    \/ PushResume(p)

\* SpecDrainLive: SpecDrain with a consumer that, unless it closes the
\* generator, keeps asking (list(...) in push_command), a body that runs
\* when asked, and collaborator calls that come back
SpecDrainLive == InitDrain /\ [][NextDrain]_vars /\ WF_vars(Advance("p1"))

\* SpecPull: one push and one pull, in any interleaving, on an empty stage or
\* on one that holds version 1.0
InitPull ==
    /\ objects \in {<<>>, SeededObjects}
    /\ push \in {[p \in Pushers |-> IF p = "p1" THEN one ELSE IdlePush] :
                    one \in {NewPush(v, l, 4) : v \in Versions, l \in LocalDirs(RaceTrees)}}
    /\ reader \in [Readers -> Pulls]

NextPull ==
    \/ PushActions("p1")
    \/ \E q \in Readers : PullBegin(q)
    \/ \E q \in Readers : PullFile(q)
    \/ \E q \in Readers : PullEnd(q)

SpecPull == InitPull /\ [][NextPull]_vars

\* ------------------------------------------------------------ listing calls
\* the stage of the docstrings, "@my_db.my_schema.packages", with short names
STAGE_PACKAGES == <<"@", "d", ".", "p", "a", "c", "k", "a", "g", "e", "s">>

ListStages == {STAGE, STAGE_PACKAGES}

\* package names: k, k2, and a package that is called packages
ListPackageNames == {PACKAGE, <<"k", "2">>, PACKAGES_BASE_PATH}

\* versions on the stage: 1.0, 2.0, 10.0
ListVersionNames == {V1, V2, <<"1", "0", ".", "0">>}

\* files of a version: f, a/f, packages/k/g
ListFileNames == {<<"f">>, <<"a", "/", "f">>,
                  PACKAGES_BASE_PATH \o <<"/">> \o PACKAGE \o <<"/", "g">>}

\* the names LIST can show on a stage
KeyPool(stage) ==
    {ListName(_get_version_path_str(stage, package_name, version) \o <<"/">> \o rel) :
        package_name \in ListPackageNames, version \in ListVersionNames,
        rel \in ListFileNames}

\* the subsets of S with at most n elements
RECURSIVE SubsetsUpTo(_, _)
SubsetsUpTo(S, n) ==
    IF n = 0 THEN {{}}
    ELSE LET T == SubsetsUpTo(S, n - 1)
         IN T \cup {t \cup {x} : t \in T, x \in S}

ListOps == {"list_versions", "list_packages", "get_max_version", "version_exists"}

\* a call of a listing operation of the PackageManager
NewCall(op, stage, package_name, version) ==
    [op |-> op,
     stage |-> stage,
     package_name |-> package_name,
     version |-> version,
     pc |-> "new",            \* new, done, failed
     raised |-> FALSE,        \* the collaborator's listing call raised
     err |-> "none",          \* the error the operation let through
     result |-> <<>>]         \* the value the operation returned

\* list_versions, get_max_version, version_exists or list_packages runs
ListCall(q) ==
    LET me == reader[q]
    IN /\ me.op \in ListOps
       /\ me.pc = "new"
       /\ \E ok \in BOOLEAN :
            \E versions \in list_versions(objects, me.stage, me.package_name, ok) :
              reader' = [reader EXCEPT ![q] =
                 [me EXCEPT
                    !.pc = "done",
                    !.raised = ~ok,
                    !.result =
                       CASE me.op = "list_versions" -> versions
                         [] me.op = "get_max_version" -> get_max_version(versions)
                         [] me.op = "version_exists" -> version_exists(versions, me.version)
                         [] OTHER -> SortedNames(list_packages(objects, me.stage, ok))]]
       /\ UNCHANGED <<objects, push>>

\* SpecList: one listing call on a stage that holds up to MaxKeys objects
InitList ==
    /\ \E stage \in ListStages :
         /\ objects \in {[k \in keys |-> "p0"] : keys \in SubsetsUpTo(KeyPool(stage), MaxKeys)}
         /\ reader \in [Readers -> {NewCall(op, stage, package_name, version) :
                                       op \in ListOps, package_name \in ListPackageNames,
                                       version \in {V1, V2}}]
    /\ push = [p \in Pushers |-> IdlePush]

NextList == \E q \in Readers : ListCall(q)

SpecList == InitList /\ [][NextList]_vars

\* ------------------------------------------------------------ version_utils calls
\* version strings: digit runs of different lengths, leading zeros, letter
\* case, the empty string, and a digit that is not an ASCII digit
VersionPool ==
    {<<"1", ".", "9">>, <<"1", ".", "1", "0">>, V1, <<"1", ".", "0", "0">>,
     <<"A", "1">>, <<"a", "1">>, <<>>, <<"²">>}

\* the sequences over S of length at most n
RECURSIVE SeqsUpTo(_, _)
SeqsUpTo(S, n) ==
    IF n = 0 THEN {<<>>}
    ELSE LET T == SeqsUpTo(S, n - 1)
         IN T \cup {Append(t, x) : t \in T, x \in S}

UtilOps == {"sorted_alphanumeric", "max_alphanumeric", "increment_version"}

\* version strings for increment_version: a carry, a prefix, no digit at all,
\* leading zeros, and a digit run followed by a digit that is not ASCII
IncrementPool ==
    VersionPool \cup
    {<<"1", ".", "0", ".", "9">>, <<"v", "1", ".", "0">>, <<"v">>,
     <<"0", "0", "9">>, <<"1", "²">>, <<"1", ".", "²">>, <<"1", ".", "0", "-", "c">>}

\* a call of a function of version_utils
NewUtilCall(op, data) ==
    [op |-> op,
     data |-> data,
     pc |-> "new",            \* new, done, failed
     err |-> "none",          \* the exception the call raised
     result |-> <<>>]         \* the value the call returned

\* sorted_alphanumeric(data), max_alphanumeric(data) or
\* increment_version(data[1]) runs
UtilCall(q) ==
    LET me == reader[q]
        raises == CASE me.op = "sorted_alphanumeric" -> SortRaises(me.data)
                    [] me.op = "max_alphanumeric" -> MaxRaises(me.data)
                    [] OTHER -> IncrementRaises(me.data[1])
    IN /\ me.op \in UtilOps
       /\ me.pc = "new"
       /\ reader' = [reader EXCEPT ![q] =
            IF raises THEN [me EXCEPT !.pc = "failed", !.err = "ValueError"]
            ELSE [me EXCEPT !.pc = "done",
                            !.result = CASE me.op = "sorted_alphanumeric"
                                              -> sorted_alphanumeric(me.data)
                                         [] me.op = "max_alphanumeric"
                                              -> max_alphanumeric(me.data)
                                         [] OTHER -> increment_version(me.data[1])]]
       /\ UNCHANGED <<objects, push>>

\* SpecVersions: one call of sorted_alphanumeric on a list of strings, of
\* max_alphanumeric on a list of strings and None, or of increment_version
\* on a string
InitVersions ==
    /\ objects = <<>>
    /\ push = [p \in Pushers |-> IdlePush]
    /\ reader \in [Readers ->
          {NewUtilCall("sorted_alphanumeric", data) : data \in SeqsUpTo(VersionPool, MaxLen)}
          \cup {NewUtilCall("max_alphanumeric", data) :
                   data \in SeqsUpTo(VersionPool \cup {NoneValue}, MaxLen)}
          \cup {NewUtilCall("increment_version", <<version>>) : version \in IncrementPool}]

NextVersions == \E q \in Readers : UtilCall(q)

SpecVersions == InitVersions /\ [][NextVersions]_vars

\* ------------------------------------------------------------ push_command
\* the version push_command starts from when the package has none
FIRST_VERSION == <<"1", ".", "0", ".", "0">>

\* the versions a stage may hold before the command runs: digit runs, a
\* carry from 9 to 10, the first version, and a version without any digit
CommandVersions ==
    {V1, FIRST_VERSION, <<"1", ".", "9">>, <<"1", ".", "1", "0">>, <<"v">>, <<"v", "1">>}

\* the stage after earlier pushes p0 of these versions, each with the file f
StageWith(versions) ==
    put(<<>>,
        UNION {PutNames(WithSlash(_get_version_path_str(STAGE, PACKAGE, v)), {<<"f">>}) :
                  v \in versions},
        FALSE, "p0")

\* a push_command invocation; version is None when the argument is left out
NewCommand(version, local) ==
    [op |-> "push_command",
     version |-> version,
     local |-> local,
     pc |-> "new",            \* new, pushing, done, failed
     err |-> "none",          \* the error the command ended with
     result |-> <<>>]         \* the rows of the CollectionResult

\* lines 84-90 of push_command
PickVersion(max_version) ==
    IF max_version = NoneValue THEN FIRST_VERSION ELSE increment_version(max_version)

\* lines 81-101 of push_command: the version is determined and
\* manager.push(...) gives its generator to list()
CommandPick(q) ==
    LET me == reader[q]
    IN /\ me.op = "push_command"
       /\ me.pc = "new"
       /\ \E ok \in BOOLEAN :
            \E versions \in list_versions(objects, STAGE, PACKAGE, ok) :
               LET version == IF me.version = NoneValue
                              THEN PickVersion(get_max_version(versions))
                              ELSE me.version
               IN push' = [push EXCEPT !["p1"] = NewPush(version, me.local, 4)]
       /\ reader' = [reader EXCEPT ![q].pc = "pushing"]
       /\ UNCHANGED objects

\* lines 92-106 of push_command: list() has drained the generator, or the
\* generator raised; a push that yielded nothing gives the one row
\* 'No files found'
CommandEnd(q) ==
    LET me == reader[q]
        gen == push["p1"]
    IN /\ me.op = "push_command"
       /\ me.pc = "pushing"
       /\ gen.pc \in {"done", "failed"}
       /\ reader' = [reader EXCEPT ![q] =
            IF gen.pc = "failed" THEN [me EXCEPT !.pc = "failed", !.err = gen.err]
            ELSE [me EXCEPT !.pc = "done",
                            !.result = IF gen.out = <<>>
                                       THEN <<[message |-> "No files found"]>>
                                       ELSE gen.out]]
       /\ UNCHANGED <<objects, push>>

\* SpecCommand: one push_command, with or without a version, on a stage
\* that holds some versions of the package
InitCommand ==
    /\ objects \in {StageWith(had) : had \in SubsetsUpTo(CommandVersions, MaxKeys)}
    /\ push = [p \in Pushers |-> IdlePush]
    /\ reader \in [Readers ->
          {NewCommand(version, local) :
              version \in {NoneValue, V1}, local \in LocalDirs(RaceTrees)}]

NextCommand ==
    \/ \E q \in Readers : CommandPick(q)
    \/ Request("p1")
    \/ PushBegin("p1")
    \/ PushIterate("p1")
    \/ PushYield("p1")
    \/ PushResume("p1")
    \/ \E q \in Readers : CommandEnd(q)

SpecCommand == InitCommand /\ [][NextCommand]_vars

\* ------------------------------------------------------------ the claims
FileDirs(tree) == {d \in tree.dirs : DirectFiles(tree, d) # {}}

CallDirs(calls) == {calls[i].directory : i \in 1..Len(calls)}

\* the rows of the first n put calls
RECURSIVE RowCount(_, _)
RowCount(calls, n) ==
    IF n = 0 THEN 0
    ELSE RowCount(calls, n - 1) + (IF calls[n].ok THEN Cardinality(calls[n].names) ELSE 0)

\* the body of push has started for this consumer
Began(p) == push[p].pc # "new" /\ push[p].asked > 0

\* the check of this push listed the versions and did not find its own
Absent(p) == push[p].lists = 1 /\ ~InSeq(push[p].version, push[p].seen)

\* C1: in every step, a version path that holds an object keeps its objects
\* unchanged: none is removed or rewritten, and none is added (an object
\* added by a push that already wrote objects of this version, i.e. the
\* later batches of the push that creates the version, is not counted).
C1_VersionNeverChanges ==
    [][\A v \in Versions :
          LET old == VersionObjects(objects, v)
              new == VersionObjects(objects', v)
          IN old # {} =>
               /\ \A n \in old : n \in new /\ objects'[n] = objects[n]
               /\ \A n \in new \ old : objects'[n] \in {objects[m] : m \in old}]_vars

\* C2: a push whose check found its version in the listed versions fails
\* with VersionImmutable ('already exists', 'immutable') and issues no put.
C2_ExistingVersionRejected ==
    \A p \in Pushers :
        (push[p].lists > 0 /\ InSeq(push[p].version, push[p].seen)) =>
            /\ push[p].pc = "failed"
            /\ push[p].err = "VersionImmutable"
            /\ {"already exists", "immutable"} \subseteq Message(push[p].err)
            /\ push[p].calls = <<>>

C2_Witness ==
    \E p \in Pushers :
        /\ InSeq(push[p].version, push[p].seen)
        /\ push[p].err = "VersionImmutable"
        /\ push[p].calls = <<>>
        /\ FileDirs(push[p].local.tree) # {}

\* C3: the check and the uploads are separate steps: two pushes of one
\* version whose checks both found the version absent are both let through,
\* nothing stops either of them later, and all their put calls go into the
\* one version path; each that runs to its end has uploaded every directory
\* that holds files.
C3_CheckThenUpload ==
    \A p, q \in Pushers :
        (p # q /\ push[p].version = push[q].version /\ Absent(p) /\ Absent(q)) =>
            /\ push[p].err # "VersionImmutable"
            /\ \A i \in 1..Len(push[p].calls) :
                  StartsWith(ListName(push[p].calls[i].target),
                             VersionPrefix(push[q].version))
            /\ push[p].pc = "done" =>
                  CallDirs(push[p].calls) = FileDirs(push[p].local.tree)

\* both checks listed the stage and found nothing, and both pushes wrote
\* objects of the version afterwards
C3_Witness ==
    \E p, q \in Pushers :
        /\ p # q
        /\ push[p].version = push[q].version
        /\ push[p].listok /\ push[q].listok
        /\ push[p].seen = <<>> /\ push[q].seen = <<>>
        /\ \E n \in VersionObjects(objects, push[p].version) : objects[n] = p
        /\ \E n \in VersionObjects(objects, push[p].version) : objects[n] = q
        /\ \E i \in 1..Len(push[p].calls) : push[p].calls[i].ok
        /\ \E i \in 1..Len(push[q].calls) : push[q].calls[i].ok

\* C4: no directory gets two put calls; at a directory's call its scratch
\* copy has no subdirectory and the batch is the directory's direct files;
\* a push that ran to its end has called put for exactly the directories
\* that directly hold a file.
C4_OneBatchPerDirectory ==
    \A p \in Pushers :
        LET calls == push[p].calls
        IN /\ \A i, j \in 1..Len(calls) :
                 calls[i].directory = calls[j].directory => i = j
           /\ \A i \in 1..Len(calls) :
                 /\ calls[i].subdirs = {}
                 /\ calls[i].names # {}
                 /\ calls[i].names = FileNames(push[p].local.tree, calls[i].directory)
           /\ push[p].pc = "done" => CallDirs(calls) = FileDirs(push[p].local.tree)

\* one root file and one nested file: two calls
C4_Witness ==
    \E p \in Pushers :
        /\ push[p].pc = "done"
        /\ push[p].local.tree.files = {<<"f">>, <<"a", "f">>}
        /\ Len(push[p].calls) = 2
        /\ CallDirs(push[p].calls) = {Root, <<"a">>}

\* C5: a directory is taken from the list only after every directory inside
\* it was taken, and at its put call nothing is left inside it; no entry of
\* the list lies inside another; the root is taken last, and no put call
\* follows the root's.
C5_DescendantsFirst ==
    \A p \in Pushers :
        LET taken == push[p].taken
            calls == push[p].calls
            queue == push[p].queue
        IN /\ \A i \in 1..Len(taken) : \A d \in push[p].local.tree.dirs :
                 (d # taken[i] /\ is_relative_to(d, taken[i])) =>
                     \E j \in 1..(i - 1) : taken[j] = d
           /\ \A i \in 1..Len(calls) : calls[i].subdirs = {}
           /\ \A i, j \in 1..Len(queue) : i # j => ~is_relative_to(queue[i], queue[j])
           /\ \A i \in 1..Len(taken) : taken[i] = Root => (i = Len(taken) /\ queue = <<>>)
           /\ \A i \in 1..Len(calls) : calls[i].directory = Root => i = Len(calls)

C5_Witness ==
    \E p \in Pushers :
        /\ push[p].pc = "done"
        /\ Len(push[p].calls) >= 3
        /\ push[p].calls[Len(push[p].calls)].directory = Root
        /\ \E i \in 1..Len(push[p].calls) : Len(push[p].calls[i].directory) = 2

\* C6: push checks that local_path exists, then that it is a directory,
\* then that the version is not listed; the first check that fails decides
\* the error, and a path error comes before any listing or put call.
C6_PreconditionOrder ==
    \A p \in Pushers :
        /\ ~Began(p) => (push[p].lists = 0 /\ push[p].calls = <<>> /\ push[p].err = "none")
        /\ Began(p) =>
              /\ push[p].local.kind = "missing" <=> push[p].err = "PathNotFound"
              /\ push[p].local.kind = "file" <=> push[p].err = "NotADirectory"
              /\ push[p].err \in {"PathNotFound", "NotADirectory"} =>
                    (push[p].lists = 0 /\ push[p].calls = <<>>)
              /\ push[p].err = "VersionImmutable" <=>
                    (push[p].local.kind = "dir" /\ InSeq(push[p].version, push[p].seen))

\* a path that is a file is reported although the version exists as well
C6_Witness ==
    \E p \in Pushers :
        /\ push[p].err = "NotADirectory"
        /\ push[p].lists = 0
        /\ VersionObjects(objects, push[p].version) # {}

\* C7: a put call that raised is the last put call of its push, the push
\* has failed with that error at its consumer, and the objects of the
\* batches before it are on the stage.
C7_UploadErrorAborts ==
    \A p \in Pushers :
        LET calls == push[p].calls
        IN \A i \in 1..Len(calls) :
              IF calls[i].ok
              THEN PutNames(calls[i].target, calls[i].names) \subseteq DOMAIN objects
              ELSE /\ i = Len(calls)
                   /\ push[p].pc = "failed"
                   /\ push[p].err = "UploadError"
                   /\ ~push[p].demand

\* the second put call raised, and a directory with files was never uploaded
C7_Witness ==
    \E p \in Pushers :
        /\ push[p].err = "UploadError"
        /\ Len(push[p].calls) >= 2
        /\ FileDirs(push[p].local.tree) \ CallDirs(push[p].calls) # {}
        /\ PutNames(push[p].calls[1].target, push[p].calls[1].names) \subseteq DOMAIN objects

\* C8: a put call is issued only when the consumer has asked for a record
\* beyond all rows of the earlier batches, and nothing is listed or put
\* before the consumer asks for the first record; so once the consumer
\* stops asking, no further batch is issued.
C8_LazyBatches ==
    \A p \in Pushers :
        /\ push[p].asked = 0 => (push[p].calls = <<>> /\ push[p].lists = 0)
        /\ Len(push[p].out) <= push[p].asked
        /\ push[p].calls # <<>> =>
              push[p].asked > RowCount(push[p].calls, Len(push[p].calls) - 1)

\* the consumer stopped and a directory with files was never uploaded
C8_Witness ==
    \E p \in Pushers :
        /\ push[p].pc = "closed"
        /\ push[p].calls # <<>>
        /\ FileDirs(push[p].local.tree) \ CallDirs(push[p].calls) # {}

\* C9: no step of a push changes local_path or anything under it.
C9_LocalUntouched == [][\A p \in Pushers : push'[p].local = push[p].local]_vars

\* directories were deleted from the scratch copy; local_path has them
C9_Witness ==
    \E p \in Pushers :
        /\ push[p].pc \in {"loop", "failed"}
        /\ push[p].calls # <<>>
        /\ push[p].taken # <<>>
        /\ \E d \in push[p].local.tree.dirs :
              /\ InSeq(d, push[p].taken)
              /\ d # Root
              /\ DirectFiles(push[p].local.tree, d) # {}

\* C10: once a push has ended (returned, raised, or was closed) its scratch
\* copy is gone, and once a pull has ended (returned or raised) its scratch
\* download area is gone.
C10_ScratchReleased ==
    /\ \A p \in Pushers :
          push[p].pc \in {"done", "failed", "closed"} => push[p].scratch = NoTree
    /\ \A q \in Readers :
          reader[q].pc \in {"done", "failed"} =>
              (~reader[q].scratch /\ reader[q].temp = <<>>)

\* a put call raised in the middle of the drain loop, and a pull has
\* downloaded files
C10_Witness ==
    \E p \in Pushers, q \in Readers :
        /\ push[p].err = "UploadError"
        /\ \E i \in 1..Len(push[p].calls) : push[p].calls[i].ok
        /\ push[p].scratch = NoTree
        /\ reader[q].pc = "done"
        /\ reader[q].results # <<>>
        /\ ~reader[q].scratch

\* a pull whose version argument is 'latest' in some letter case
AsksLatest(r) == r.op = "pull" /\ Lower(r.version) = <<"l", "a", "t", "e", "s", "t">>

\* the versions that have an object on the stage
StoredVersions(objs) == {v \in Versions : VersionObjects(objs, v) # {}}

\* every name listed and every download requested by a pull lies under the
\* prefix of the version it resolved
UnderResolved(r) ==
    /\ \A n \in r.listed : StartsWith(n, VersionPrefix(r.resolved))
    /\ \A i \in 1..Len(r.gets) :
          StartsWith(r.gets[i], _get_version_path_str(STAGE, PACKAGE, r.resolved) \o <<"/">>)
    /\ \A f \in DOMAIN r.files : StartsWith(r.files[f], VersionPrefix(r.resolved))

\* C11: when a pull of 'latest' (any letter case) starts, it fails with
\* NoVersionsFound and downloads nothing if get_max_version gave no version
\* (always so when the package has none), and otherwise works on a greatest
\* version of the listing (2.0 when 1.0 and 2.0 are stored); everything it
\* lists and downloads lies under that version's prefix.
C11_LatestResolved ==
    [][\A q \in Readers :
          LET old == reader[q]
              new == reader'[q]
              stored == StoredVersions(objects)
          IN /\ (AsksLatest(old) /\ old.pc = "new" /\ new.pc # "new") =>
                   /\ stored = {} => new.err = "NoVersionsFound"
                   /\ new.err = "NoVersionsFound" =>
                         (new.gets = <<>> /\ new.results = <<>> /\ new.lists = 1)
                   /\ new.err # "NoVersionsFound" =>
                         /\ new.resolved \in stored
                         /\ \A v \in stored :
                               ~KeyLess(get_alphanum_key(new.resolved), get_alphanum_key(v))
                         /\ stored = {V1, V2} => new.resolved = V2
             /\ (AsksLatest(new) /\ new.err # "NoVersionsFound" /\ new.pc # "new") =>
                   UnderResolved(new)
             /\ (AsksLatest(new) /\ new.err = "NoVersionsFound") => new.gets = <<>>]_vars

\* 'Latest' was resolved to 2.0 on a stage that holds 1.0 and 2.0, and a
\* file of 2.0 was downloaded
C11_Witness ==
    \E q \in Readers :
        /\ AsksLatest(reader[q])
        /\ reader[q].version # <<"l", "a", "t", "e", "s", "t">>
        /\ reader[q].resolved = V2
        /\ StoredVersions(objects) = {V1, V2}
        /\ reader[q].pc = "done"
        /\ \E i \in 1..Len(reader[q].results) : reader[q].results[i].status = "downloaded"

\* C12: when a pull of a version other than 'latest' starts and the version
\* has no object on the stage (so it is not in list_versions), the pull
\* fails with VersionNotFound ('does not exist'); a pull that failed so has
\* issued the one listing of list_versions, no listing of the version
\* prefix, and no download.
C12_MissingVersionRejected ==
    [][\A q \in Readers :
          LET old == reader[q]
              new == reader'[q]
          IN /\ (old.op = "pull" /\ ~AsksLatest(old) /\ old.pc = "new" /\ new.pc # "new"
                    /\ old.version \notin StoredVersions(objects)) =>
                   /\ new.pc = "failed"
                   /\ new.err = "VersionNotFound"
                   /\ "does not exist" \in Message(new.err)
             /\ (new.op = "pull" /\ ~AsksLatest(new) /\ new.err = "VersionNotFound") =>
                   /\ new.pc = "failed"
                   /\ new.lists = 1
                   /\ new.listed = {}
                   /\ new.gets = <<>>
                   /\ new.results = <<>>
                   /\ new.files = <<>>]_vars

\* version 1.0 was asked for on a stage that holds only version 2.0
C12_Witness ==
    \E q \in Readers :
        /\ reader[q].op = "pull"
        /\ reader[q].version = V1
        /\ reader[q].err = "VersionNotFound"
        /\ StoredVersions(objects) = {V2}
        /\ reader[q].gets = <<>>

\* the listed names of a pull that give a non-empty relative path, in the
\* order of the listing
RECURSIVE Attempted(_, _)
Attempted(stage_path, names) ==
    IF names = <<>> THEN <<>>
    ELSE (IF RelativePath(stage_path, Head(names)) = <<>> THEN <<>>
          ELSE <<RelativePath(stage_path, Head(names))>>)
         \o Attempted(stage_path, Tail(names))

\* C13: a pull that has entered its download loop never fails: a download
\* that raises or whose file is not found in the scratch area gives a
\* 'failed' record and the loop goes on; every listed name handled so far
\* has one get call and one record ('downloaded' or 'failed'), in listing
\* order, and the returned result has exactly one record per listed name
\* with a non-empty relative path.
C13_FailuresRecorded ==
    \A q \in Readers :
        LET me == reader[q]
            stage_path == _get_version_path_str(STAGE, PACKAGE, me.resolved)
            all == Attempted(stage_path, SortedNames(me.listed))
        IN (me.op = "pull" /\ me.listed # {}) =>
              /\ me.pc \in {"files", "done"}
              /\ me.err = "none"
              /\ Len(me.results) = Len(me.gets)
              /\ Len(me.results) + Len(Attempted(stage_path, me.todo)) = Len(all)
              /\ \A i \in 1..Len(me.results) :
                    /\ me.results[i].file = all[i]
                    /\ me.results[i].file # <<>>
                    /\ me.results[i].status \in {"downloaded", "failed"}
                    /\ me.results[i].status = "downloaded" =>
                          FinalPath(all[i]) \in DOMAIN me.files
              /\ me.pc = "done" => (me.todo = <<>> /\ Len(me.results) = Len(all))

\* a pull of two files returned normally although both downloads failed:
\* the second file was attempted after the first had failed
C13_Witness ==
    \E q \in Readers :
        /\ reader[q].op = "pull"
        /\ reader[q].pc = "done"
        /\ reader[q].err = "none"
        /\ reader[q].kind = "dir"
        /\ Len(reader[q].results) = 2
        /\ Len(reader[q].gets) = 2
        /\ reader[q].results[1].status = "failed"
        /\ reader[q].results[2].status = "failed"
        /\ reader[q].convention # "nowhere"

C15_FilePathRejected ==
    \A q \in Readers :
        (/\ reader[q].op = "pull"
         /\ reader[q].was = "file"
         /\ reader[q].pc # "new"
         /\ reader[q].err \notin {"VersionNotFound", "NoVersionsFound"}) =>
            /\ reader[q].pc = "failed"
            /\ reader[q].err = "NotADirectory"
            /\ "Local path must be a directory" \in Message(reader[q].err)

\* the first path segment behind '<stage>/packages/<package>/' of every
\* listed name that starts with it
VersionsUnder(keys, stage, package_name) ==
    LET prefix == ListName(_get_package_base_path(stage, package_name) \o <<"/">>)
    IN {SplitOnceFirst(Slice(k, Len(prefix) + 1, Len(k)), <<"/">>) :
          k \in {n \in keys : StartsWith(n, prefix) /\ Len(n) > Len(prefix)}}

\* a sequence without repetition whose keys do not decrease
SortedVersions(seq) ==
    /\ \A i, j \in 1..Len(seq) : i < j =>
          /\ seq[i] # seq[j]
          /\ ~KeyLess(get_alphanum_key(seq[j]), get_alphanum_key(seq[i]))

\* the listing of a package shows only names under '<stage>/packages/<package>/'
OwnKeysOnly(objs, stage, package_name) ==
    \A n \in list_files(objs, _get_package_base_path(stage, package_name)) :
        StartsWith(n, ListName(_get_package_base_path(stage, package_name) \o <<"/">>))

\* C16: when every listed name lies under '<stage>/packages/<package>/',
\* list_versions returns the first path segments behind that prefix, each
\* once, in alphanumeric order.
C16_VersionsListed ==
    \A q \in Readers :
        LET me == reader[q]
        IN (/\ me.op = "list_versions" /\ me.pc = "done" /\ ~me.raised
            /\ OwnKeysOnly(objects, me.stage, me.package_name)) =>
              /\ {me.result[i] : i \in 1..Len(me.result)} =
                    VersionsUnder(DOMAIN objects, me.stage, me.package_name)
              /\ SortedVersions(me.result)

\* C17: a listing operation whose listing call raised has ended without an
\* error: list_versions and list_packages returned the empty sequence,
\* version_exists returned false and get_max_version returned None.
C17_ListingErrorSwallowed ==
    \A q \in Readers :
        LET me == reader[q]
        IN (me.op \in ListOps /\ me.pc # "new") =>
              /\ me.pc = "done"
              /\ me.err = "none"
              /\ me.raised =>
                    CASE me.op = "version_exists" -> me.result = FALSE
                      [] me.op = "get_max_version" -> me.result = NoneValue
                      [] OTHER -> me.result = <<>>

\* the listing raised on a stage that holds the version that was asked for
C17_Witness ==
    \E q \in Readers :
        /\ reader[q].op = "version_exists"
        /\ reader[q].pc = "done"
        /\ reader[q].raised
        /\ reader[q].result = FALSE
        /\ reader[q].version \in
              VersionsUnder(DOMAIN objects, reader[q].stage, reader[q].package_name)

\* '<stage>/packages/' as LIST shows it
PackagesPrefix(stage) ==
    ListName((IF StartsWith(stage, <<"@">>) THEN stage ELSE <<"@">> \o stage)
             \o <<"/">> \o PACKAGES_BASE_PATH \o <<"/">>)

\* the path segment directly behind '<stage>/packages/' of every listed name
PackagesUnder(keys, stage) ==
    {SplitOnceFirst(Slice(k, Len(PackagesPrefix(stage)) + 1, Len(k)), <<"/">>) :
        k \in {n \in keys : StartsWith(n, PackagesPrefix(stage))
                             /\ Len(n) > Len(PackagesPrefix(stage))}}

\* C18: on every stage, one called 'packages' included, list_packages
\* returns the path segments directly behind '<stage>/packages/' of the
\* listed names, each once, in lexicographic order.
C18_PackagesListed ==
    \A q \in Readers :
        LET me == reader[q]
        IN (/\ me.op = "list_packages" /\ me.pc = "done" /\ ~me.raised
            /\ \A n \in DOMAIN objects : StartsWith(n, PackagesPrefix(me.stage))) =>
              me.result = SortedNames(PackagesUnder(DOMAIN objects, me.stage))

\* result is data rearranged by f, a permutation of the positions
Rearranged(result, data, f) ==
    /\ Len(result) = Len(data)
    /\ \A i, j \in 1..Len(data) : i # j => f[i] # f[j]
    /\ \A i \in 1..Len(data) : result[i] = data[f[i]]

\* C19: every call of sorted_alphanumeric on a list of strings returns; the
\* result is a permutation of the list whose keys do not decrease, and
\* elements with equal keys are in their input order; 1.9 comes before 1.10.
C19_SortTotalStable ==
    \A q \in Readers :
        LET me == reader[q]
        IN (me.op = "sorted_alphanumeric" /\ me.pc # "new") =>
              /\ me.pc = "done"
              /\ \E f \in [1..Len(me.data) -> 1..Len(me.data)] :
                    /\ Rearranged(me.result, me.data, f)
                    /\ \A i, j \in 1..Len(me.data) : i < j =>
                          /\ ~KeyLess(get_alphanum_key(me.result[j]),
                                      get_alphanum_key(me.result[i]))
                          /\ get_alphanum_key(me.result[i]) = get_alphanum_key(me.result[j])
                                => f[i] < f[j]
              /\ \A i, j \in 1..Len(me.result) :
                    (me.result[i] = <<"1", ".", "1", "0">> /\ me.result[j] = <<"1", ".", "9">>)
                        => j < i

\* the entries of a list that are neither None nor the empty string
ValidVersions(data) == SelectSeq(data, LAMBDA v : v # NoneValue /\ v # <<>>)

\* C20: a call of max_alphanumeric that returns gives None when no entry is
\* left after None and '' are dropped; otherwise it gives an entry that is
\* left, no entry that is left has a greater key, and every entry before the
\* first occurrence of the result has a smaller key (of 1.0 and 1.00 the one
\* that comes first).
C20_MaxFirstOfGreatest ==
    \A q \in Readers :
        LET me == reader[q]
            valid == ValidVersions(me.data)
        IN (me.op = "max_alphanumeric" /\ me.pc = "done") =>
              /\ valid = <<>> <=> me.result = NoneValue
              /\ valid # <<>> =>
                    \E i \in 1..Len(valid) :
                       /\ me.result = valid[i]
                       /\ me.result # <<>>
                       /\ \A j \in 1..Len(valid) :
                             ~KeyLess(get_alphanum_key(me.result), get_alphanum_key(valid[j]))
                       /\ \A j \in 1..(i - 1) :
                             /\ valid[j] # me.result
                             /\ get_alphanum_key(valid[j]) # get_alphanum_key(me.result)

\* None, 1.00 and 1.0 in this order: the result is 1.00, not 1.0
C20_Witness ==
    \E q \in Readers :
        /\ reader[q].op = "max_alphanumeric"
        /\ reader[q].pc = "done"
        /\ reader[q].data = <<NoneValue, <<"1", ".", "0", "0">>, V1>>
        /\ reader[q].result = <<"1", ".", "0", "0">>

\* C21: every call of increment_version on a string returns; the result is
\* the string with its last maximal digit run replaced by the decimal
\* rendering of the run's value plus one, every other character unchanged;
\* a string without any digit is returned unchanged.
C21_IncrementTotal ==
    \A q \in Readers :
        LET me == reader[q]
            version == me.data[1]
            \* the last maximal run of decimal digits: <<first, last>>
            ends == {i \in 1..Len(version) : IsDecimal(version[i])}
            last == CHOOSE i \in ends : \A j \in ends : j <= i
            starts == {i \in 1..last : \A j \in i..last : IsDecimal(version[j])}
            first == CHOOSE i \in starts : \A j \in starts : i <= j
            run == IF ends = {} THEN <<0, 0>> ELSE <<first, last>>
        IN (me.op = "increment_version" /\ me.pc # "new") =>
              /\ me.pc = "done"
              /\ run = <<0, 0>> => me.result = version
              /\ run # <<0, 0>> =>
                    me.result = Slice(version, 1, run[1] - 1)
                                \o IntToStr(ParseInt(Slice(version, run[1], run[2])) + 1)
                                \o Slice(version, run[2] + 1, Len(version))

\* a push that a put error aborted after an earlier put call of it returned
PartiallyUploaded(p) ==
    /\ push[p].pc = "failed"
    /\ push[p].err = "UploadError"
    /\ \E i \in 1..(Len(push[p].calls) - 1) : push[p].calls[i].ok

\* C22: once a put error has aborted a push that had uploaded an earlier
\* batch, every push of the same version that makes its check afterwards is
\* shown the version by list_versions and fails with VersionImmutable.
C22_PartialVersionLocked ==
    [][\A p, r \in Pushers :
          (/\ p # r
           /\ PartiallyUploaded(p)
           /\ push[r].version = push[p].version
           /\ push[r].lists = 0
           /\ push'[r].lists = 1) =>
              /\ InSeq(push[p].version, push'[r].seen)
              /\ push'[r].pc = "failed"
              /\ push'[r].err = "VersionImmutable"]_vars

\* C23: a push_command that was given no version picks 1.0.0 when the
\* package has no version and the increment of a greatest version
\* otherwise; the key of the picked version is greater than the key of
\* every version the package had, the picked version is none of them, and
\* the push does not fail with VersionImmutable.
C23_AutoVersionIsNew ==
    \A q \in Readers :
        LET me == reader[q]
            \* the versions earlier pushes left on the stage
            had == VersionsUnder({n \in DOMAIN objects : objects[n] = "p0"}, STAGE, PACKAGE)
            picked == push["p1"].version
        IN (me.op = "push_command" /\ me.version = NoneValue /\ me.pc # "new") =>
              /\ had = {} => picked = FIRST_VERSION
              /\ had # {} =>
                    \E v \in had :
                       /\ picked = increment_version(v)
                       /\ \A w \in had : ~KeyLess(get_alphanum_key(v), get_alphanum_key(w))
              /\ \A w \in had : KeyLess(get_alphanum_key(w), get_alphanum_key(picked))
              /\ picked \notin had
              /\ push["p1"].err # "VersionImmutable"

\* '<stage>/packages/<package>/<version>/' followed by '<R>/' for a
\* directory R below the root
ExpectedTarget(version, directory) ==
    STAGE \o <<"/", "p", "a", "c", "k", "a", "g", "e", "s", "/">> \o PACKAGE \o <<"/">>
    \o version \o <<"/">>
    \o (IF directory = Root THEN <<>> ELSE PathStr(directory) \o <<"/">>)

\* C24: every put call of a push names the prefix
\* '<stage>/packages/<package>/<version>/<R>/' for the scratch directory at
\* relative path R ('<stage>/packages/<package>/<version>/' for the root),
\* with overwrite and auto_compress false and the parallelism of the caller.
C24_PutTargetsAndOptions ==
    \A p \in Pushers :
        \A i \in 1..Len(push[p].calls) :
            LET call == push[p].calls[i]
            IN /\ call.target = ExpectedTarget(push[p].version, call.directory)
               /\ ~call.overwrite
               /\ ~call.auto_compress
               /\ call.parallel = push[p].parallel

\* a push with parallel = 2 that has put the directory a and then the root
C24_Witness ==
    \E p \in Pushers :
        /\ push[p].parallel = 2
        /\ Len(push[p].calls) = 2
        /\ push[p].calls[1].directory = <<"a">>
        /\ push[p].calls[1].target = ExpectedTarget(V1, <<"a">>)
        /\ push[p].calls[2].directory = Root
        /\ push[p].calls[2].target = ExpectedTarget(V1, Root)

\* C25: every listed key is '<simple-stage-name>/packages/<package>/
\* <version>/<rel>'; for each key handled, pull has asked get for
\* '@<fully-qualified-stage>/packages/<package>/<version>/<rel>' and its
\* record names <rel>; the record says downloaded exactly when the file of
\* this key is at local_path/<rel>; a pull that ended with every record
\* downloaded has exactly the relative paths of the listed keys.
C25_PullMapsPaths ==
    \A q \in Readers :
        LET me == reader[q]
            \* the listed names handled so far, in the order of the listing
            handled == SubSeq(SortedNames(me.listed), 1,
                              Cardinality(me.listed) - Len(me.todo))
            \* '<simple-stage-name>/packages/<package>/<version>/'
            ListedPrefix(version) ==
                <<"s", "/", "p", "a", "c", "k", "a", "g", "e", "s", "/">> \o PACKAGE
                \o <<"/">> \o version \o <<"/">>
            \* <rel> of a listed key
            RelOf(name, version) == Slice(name, Len(ListedPrefix(version)) + 1, Len(name))
            \* '@<fully-qualified-stage>/packages/<package>/<version>/<rel>'
            ExpectedGet(name, version) ==
                STAGE \o <<"/", "p", "a", "c", "k", "a", "g", "e", "s", "/">> \o PACKAGE
                \o <<"/">> \o version \o <<"/">> \o RelOf(name, version)
        IN (me.op = "pull" /\ me.pc \in {"files", "done"}) =>
              /\ \A n \in me.listed :
                    StartsWith(n, ListedPrefix(me.resolved)) /\ RelOf(n, me.resolved) # <<>>
              /\ Len(me.gets) = Len(handled)
              /\ Len(me.results) = Len(handled)
              /\ \A i \in 1..Len(handled) :
                    LET rel == RelOf(handled[i], me.resolved)
                    IN /\ me.gets[i] = ExpectedGet(handled[i], me.resolved)
                       /\ me.results[i].file = rel
                       /\ me.results[i].status = "downloaded" <=>
                             (rel \in DOMAIN me.files /\ me.files[rel] = handled[i])
              /\ (/\ me.pc = "done"
                  /\ \A i \in 1..Len(me.results) : me.results[i].status = "downloaded") =>
                    DOMAIN me.files = {RelOf(n, me.resolved) : n \in me.listed}

\* a finished pull of version 1.0 that downloaded f and a/f, the latter
\* written by get under another name in the scratch directory
C25_Witness ==
    \E q \in Readers :
        /\ reader[q].op = "pull"
        /\ reader[q].pc = "done"
        /\ reader[q].resolved = V1
        /\ reader[q].convention = "elsewhere"
        /\ reader[q].gets = <<STAGE \o <<"/", "p", "a", "c", "k", "a", "g", "e", "s", "/",
                                         "k", "/", "1", ".", "0", "/", "a", "/", "f">>,
                              STAGE \o <<"/", "p", "a", "c", "k", "a", "g", "e", "s", "/",
                                         "k", "/", "1", ".", "0", "/", "f">>>>
        /\ DOMAIN reader[q].files = {<<"a", "/", "f">>, <<"f">>}
        /\ \A i \in 1..2 : reader[q].results[i].status = "downloaded"

\* C26: the drain loop of a push ends; no directory is taken from the list
\* twice, when the root is taken the scratch tree has no other directory
\* left and the list is empty, nothing is taken after the root, and a push
\* that returned had taken the root last.
C26_DrainTerminates ==
    /\ [](\A p \in Pushers :
            LET taken == push[p].taken
            IN /\ \A i, j \in 1..Len(taken) : taken[i] = taken[j] => i = j
               /\ \A i \in 1..Len(taken) : taken[i] = Root => i = Len(taken)
               /\ (push[p].pc = "done" /\ Began(p) /\ push[p].lists > 0) =>
                     (taken # <<>> /\ taken[Len(taken)] = Root))
    /\ [][\A p \in Pushers :
            (Len(push'[p].taken) = Len(push[p].taken) + 1
             /\ push'[p].taken[Len(push'[p].taken)] = Root) =>
                /\ push[p].scratch.dirs = {Root}
                /\ push[p].queue = <<Root>>
                /\ push'[p].pc \in {"yield", "done", "failed"}]_vars
    /\ <>(\A p \in Pushers : push[p].pc \in {"done", "failed", "closed"})

\* a push that returned after it took a/b, then a, then the root
C26_Witness ==
    \E p \in Pushers :
        /\ push[p].pc = "done"
        /\ push[p].taken = <<<<"a", "b">>, <<"a">>, Root>>
        /\ push[p].calls # <<>>

\* C27: a put call is issued only for a directory of local_path that holds
\* files directly, and every object a push wrote is a file of local_path
\* under the version prefix, so no empty directory shows on the stage; a
\* push of a tree without any file issues no put call, yields no record and
\* writes no object, and on a stage that held nothing the version still
\* does not exist for any listing.
C27_EmptyDirectoriesSkipped ==
    \A p \in Pushers :
        LET me == push[p]
            tree == me.local.tree
            \* the names of the objects this push has written
            written == {n \in DOMAIN objects : objects[n] = p}
        IN /\ \A i \in 1..Len(me.calls) :
                 /\ me.calls[i].names # {}
                 /\ DirectFiles(tree, me.calls[i].directory) # {}
           /\ written # {} =>
                 \E prefix \in {VersionPrefix(me.version)} :
                    written \subseteq {prefix \o PathStr(f) : f \in tree.files}
           /\ tree.files = {} =>
                 /\ me.calls = <<>>
                 /\ me.out = <<>>
                 /\ written = {}
                 /\ (\A n \in DOMAIN objects : objects[n] = p) =>
                       \A versions \in list_versions(objects, STAGE, PACKAGE, TRUE) :
                          ~version_exists(versions, me.version)

\* a push of the directories a and a/b without any file has returned: it
\* took all three directories and the stage is as empty as before
C27_Witness ==
    \E p \in Pushers :
        /\ push[p].pc = "done"
        /\ push[p].local.tree = [dirs |-> {Root, <<"a">>, <<"a", "b">>}, files |-> {}]
        /\ Len(push[p].taken) = 3
        /\ push[p].calls = <<>>
        /\ push[p].out = <<>>
        /\ objects = <<>>

====
